---- MODULE Spec2Model ----
(***************************************************************************)
(* A model of the pure codecs of bitcoin-sdk: src/src/crypto.rs            *)
(* (BitcoinCrypto: Base58Check, Bech32, WIF, addresses) and                *)
(* src/src/serialization.rs (Serialization: varint, txid, Merkle root).    *)
(*                                                                         *)
(* Bytes are integers 0..255, byte strings are sequences of bytes, and a   *)
(* text is a sequence of one-character strings.  A Result<T> is a record   *)
(* [ok, val, err].  A u64 is four 16-bit limbs, most significant first,    *)
(* because the model checker's integers are 32 bits wide.                  *)
(*                                                                         *)
(* The functions are applied by a caller that is either idle, holds a      *)
(* value an encoder produced (or that it made up), or holds the answer of  *)
(* a decoder applied to that value.                                        *)
(***************************************************************************)
EXTENDS Integers, Sequences, FiniteSets, Bags, TLC

VARIABLES pc, call, text, stream, query, result

vars == <<pc, call, text, stream, query, result>>

-----------------------------------------------------------------------------
(* Result<T> *)

Ok(v) == [ok |-> TRUE, val |-> v, err |-> ""]

Err(e) == [ok |-> FALSE, val |-> <<>>, err |-> e]

-----------------------------------------------------------------------------
(* Sequence helpers *)

Take(s, n) == SubSeq(s, 1, n)

Drop(s, n) == SubSeq(s, n + 1, Len(s))

Reverse(s) == [i \in 1..Len(s) |-> s[Len(s) + 1 - i]]

Repeat(x, n) == [i \in 1..n |-> x]

\* iter().take_while(|v| **v == z).count()
LeadingCount(s, z) ==
    IF \A i \in 1..Len(s) : s[i] = z THEN Len(s)
    ELSE (CHOOSE i \in 1..Len(s) : s[i] # z /\ \A j \in 1..(i - 1) : s[j] = z) - 1

(* The loops over a sequence are written by halves, the first half before    *)
(* the second: the elements are visited in the order of the loop, and the    *)
(* evaluation stays shallow.                                                 *)

\* `rest`, once `first` has its value
Then(first, rest) == IF first = first THEN rest ELSE rest

-----------------------------------------------------------------------------
(* The digests.  SHA-256 and RIPEMD-160 are the sha2 and ripemd crates'; the *)
(* model keeps what the codecs use of them: a fixed function of the bytes   *)
(* with a 32-byte (20-byte) output that depends on every input byte and on  *)
(* their order.                                                             *)

\* the weight of the byte at position i: the digest depends on the order
Weight(i) == 1 + ((i * i * 131 + i * 7) % 65520)

\* hasher.update(data): every byte absorbed at its position
Absorb(data) ==
    (7 + Len(data)
       + BagCardinality([i \in DOMAIN data |-> Weight(i) * (data[i] + 1)]))
      % 65521

Squeeze(acc, i) == (((acc \div (2 ^ (i % 8))) + i) * (2 * i + 1)) % 256

\* hasher.finalize().into(): the 32 bytes of the digest
Finalize == [acc \in 0..65520 |-> [i \in 1..32 |-> Squeeze(acc, i)]]

sha256(data) == Finalize[Absorb(data)]

double_sha256(data) == sha256(sha256(data))

\* &Self::double_sha256(&data)[..4]
Checksum4(data) == Take(double_sha256(data), 4)

-----------------------------------------------------------------------------
(* Base58 (the bs58 crate, Bitcoin alphabet) *)

B58Alphabet ==
    << "1", "2", "3", "4", "5", "6", "7", "8", "9",
       "A", "B", "C", "D", "E", "F", "G", "H", "J", "K", "L", "M", "N", "P", "Q",
       "R", "S", "T", "U", "V", "W", "X", "Y", "Z",
       "a", "b", "c", "d", "e", "f", "g", "h", "i", "j", "k", "m", "n", "o", "p",
       "q", "r", "s", "t", "u", "v", "w", "x", "y", "z" >>

B58Chars == {B58Alphabet[i] : i \in 1..58}

\* alpha.decode[c]: the digit of a character of the alphabet
B58Digit == [c \in B58Chars |-> (CHOOSE i \in 1..58 : B58Alphabet[i] = c) - 1]

\* for byte in &mut output[..index] { carry += byte * ib; *byte = carry % ob;
\* carry /= ob } over the digits lo..hi: <<the new digits, the carry left>>
RECURSIVE CarryThrough(_, _, _, _, _, _)
CarryThrough(digits, lo, hi, carry, ib, ob) ==
    IF lo > hi THEN << <<>>, carry >>
    ELSE IF lo = hi
         THEN LET c == carry + digits[lo] * ib IN << <<c % ob>>, c \div ob >>
    ELSE LET mid   == (lo + hi) \div 2
             left  == CarryThrough(digits, lo, mid, carry, ib, ob)
             right == CarryThrough(digits, mid + 1, hi, left[2], ib, ob)
         IN  << left[1] \o right[1], right[2] >>

\* while carry > 0 { output[index] = carry % ob; index += 1; carry /= ob }
RECURSIVE Spill(_, _)
Spill(carry, ob) ==
    IF carry = 0 THEN <<>> ELSE <<carry % ob>> \o Spill(carry \div ob, ob)

\* The body of the outer loop of encode and of decode: the little-endian
\* digits in base `ob` multiplied by `ib`, `val` added.
MulAdd(digits, val, ib, ob) ==
    LET r == CarryThrough(digits, 1, Len(digits), val, ib, ob)
    IN  r[1] \o Spill(r[2], ob)

\* for &val in input { ... } over the elements lo..hi of the input
RECURSIVE ConvertRange(_, _, _, _, _, _)
ConvertRange(digits, input, lo, hi, ib, ob) ==
    IF lo > hi THEN digits
    ELSE IF lo = hi THEN MulAdd(digits, input[lo], ib, ob)
    ELSE LET mid  == (lo + hi) \div 2
             left == ConvertRange(digits, input, lo, mid, ib, ob)
         IN  Then(left, ConvertRange(left, input, mid + 1, hi, ib, ob))

Convert(input, ib, ob) == ConvertRange(<<>>, input, 1, Len(input), ib, ob)

\* bs58::encode(data).into_string()
base58_encode(data) ==
    LET digits == Convert(data, 256, 58)
        padded == digits \o Repeat(0, LeadingCount(data, 0))
    IN  Reverse([i \in 1..Len(padded) |-> B58Alphabet[padded[i] + 1]])

\* base58_decode without the step that restores the leading zero bytes
base58_decode_no_zeros(encoded) ==
    IF \E i \in 1..Len(encoded) : encoded[i] \notin B58Chars
    THEN Err("Base58 decode error")
    ELSE LET vals  == [i \in 1..Len(encoded) |-> B58Digit[encoded[i]]]
         IN  Ok(Reverse(Convert(vals, 58, 256)))

\* bs58::decode(encoded).into_vec()
base58_decode(encoded) ==
    IF \E i \in 1..Len(encoded) : encoded[i] \notin B58Chars
    THEN Err("Base58 decode error")
    ELSE LET vals  == [i \in 1..Len(encoded) |-> B58Digit[encoded[i]]]
             bytes == Convert(vals, 58, 256)
         IN  Ok(Reverse(bytes \o Repeat(0, LeadingCount(encoded, "1"))))

\* Base58Check encoding
base58check_encode(data) == base58_encode(data \o Checksum4(data))

\* decode_base58check with the length test after the checksum test, and a
\* short input reported as a checksum mismatch
decode_base58check_unordered(encoded) ==
    LET r == base58_decode(encoded) IN
    IF ~r.ok THEN r
    ELSE LET decoded     == r.val
             payload_len == IF Len(decoded) < 4 THEN 0 ELSE Len(decoded) - 4
         IN  IF Drop(decoded, payload_len) # Checksum4(Take(decoded, payload_len))
             THEN Err("Checksum mismatch")
             ELSE Ok(Take(decoded, payload_len))

\* Decoding a Base58Check address
decode_base58check(encoded) ==
    LET r == base58_decode(encoded) IN
    IF ~r.ok THEN r
    ELSE LET decoded     == r.val
             payload_len == Len(decoded) - 4
         IN  IF Len(decoded) < 4 THEN Err("Data too short for checksum")
             ELSE IF Drop(decoded, payload_len) # Checksum4(Take(decoded, payload_len))
                  THEN Err("Checksum mismatch")
                  ELSE Ok(Take(decoded, payload_len))

\* Base58Check decode
base58check_decode(encoded) == decode_base58check(encoded)

-----------------------------------------------------------------------------
(* Characters: the ASCII letters and digits *)

DigitChars == << "0", "1", "2", "3", "4", "5", "6", "7", "8", "9" >>

UpperChars ==
    << "A", "B", "C", "D", "E", "F", "G", "H", "I", "J", "K", "L", "M", "N", "O",
       "P", "Q", "R", "S", "T", "U", "V", "W", "X", "Y", "Z" >>

LowerChars ==
    << "a", "b", "c", "d", "e", "f", "g", "h", "i", "j", "k", "l", "m", "n", "o",
       "p", "q", "r", "s", "t", "u", "v", "w", "x", "y", "z" >>

UpperSet == {UpperChars[i] : i \in 1..26}

LowerSet == {LowerChars[i] : i \in 1..26}

IsUpper(c) == c \in UpperSet

IsLower(c) == c \in LowerSet

\* to_lowercase of one character
ToLower(c) ==
    IF IsUpper(c) THEN LowerChars[CHOOSE i \in 1..26 : UpperChars[i] = c] ELSE c

\* to_uppercase of one character
ToUpper(c) ==
    IF IsLower(c) THEN UpperChars[CHOOSE i \in 1..26 : LowerChars[i] = c] ELSE c

\* the byte of a character
Ascii(c) ==
    IF IsUpper(c) THEN 64 + (CHOOSE i \in 1..26 : UpperChars[i] = c)
    ELSE IF IsLower(c) THEN 96 + (CHOOSE i \in 1..26 : LowerChars[i] = c)
    ELSE 47 + (CHOOSE i \in 1..10 : DigitChars[i] = c)

-----------------------------------------------------------------------------
(* Bech32 (the bech32 crate, Variant::Bech32) *)

Bech32Charset ==
    << "q", "p", "z", "r", "y", "9", "x", "8", "g", "f", "2", "t", "v", "d", "w",
       "0", "s", "3", "j", "n", "5", "4", "k", "h", "c", "e", "6", "m", "u", "a",
       "7", "l" >>

Bech32Chars == {Bech32Charset[i] : i \in 1..32}

\* CHARSET_REV[c]: the 5-bit value of a character of the charset
Bech32Value == [c \in Bech32Chars |-> (CHOOSE i \in 1..32 : Bech32Charset[i] = c) - 1]

\* GEN
Bech32Gen == << 996825010, 642813549, 513874426, 1027748829, 705979059 >>

\* x ^ y for 5-bit x and y
Xor5(x, y) ==
    ((x + y) % 2)
      + 2 * (((x \div 2) + (y \div 2)) % 2)
      + 4 * (((x \div 4) + (y \div 4)) % 2)
      + 8 * (((x \div 8) + (y \div 8)) % 2)
      + 16 * (((x \div 16) + (y \div 16)) % 2)

\* a ^ b for a and b below 2^30
Xor(a, b) ==
    Xor5(a % 32, b % 32)
      + 32 * Xor5((a \div 32) % 32, (b \div 32) % 32)
      + 1024 * Xor5((a \div 1024) % 32, (b \div 1024) % 32)
      + 32768 * Xor5((a \div 32768) % 32, (b \div 32768) % 32)
      + 1048576 * Xor5((a \div 1048576) % 32, (b \div 1048576) % 32)
      + 33554432 * Xor5((a \div 33554432) % 32, (b \div 33554432) % 32)

\* for (i, item) in GEN.iter().enumerate() { if (b >> i) & 1 == 1 { chk ^= item } }
\* done for the first n items
RECURSIVE XorGen(_, _, _)
XorGen(chk, b, n) ==
    IF n = 0 THEN chk
    ELSE LET before == XorGen(chk, b, n - 1)
         IN  IF (b \div (2 ^ (n - 1))) % 2 = 1 THEN Xor(before, Bech32Gen[n])
             ELSE before

\* let b = chk >> 25; chk = (chk & 0x1ffffff) << 5 ^ v; ...
PolymodStep(chk, v) == XorGen(Xor((chk % 33554432) * 32, v), chk \div 33554432, 5)

\* for v in values { ... } over the values lo..hi
RECURSIVE PolymodRange(_, _, _, _)
PolymodRange(chk, values, lo, hi) ==
    IF lo > hi THEN chk
    ELSE IF lo = hi THEN PolymodStep(chk, values[lo])
    ELSE LET mid  == (lo + hi) \div 2
             left == PolymodRange(chk, values, lo, mid)
         IN  Then(left, PolymodRange(left, values, mid + 1, hi))

polymod(values) == PolymodRange(1, values, 1, Len(values))

hrp_expand(hrp) ==
    [i \in 1..Len(hrp) |-> Ascii(hrp[i]) \div 32] \o <<0>>
        \o [i \in 1..Len(hrp) |-> (Ascii(hrp[i]) % 32)]

\* check_hrp: "upper", "lower", "none", or "error"
check_hrp(hrp) ==
    LET has_upper == \E i \in 1..Len(hrp) : IsUpper(hrp[i])
        has_lower == \E i \in 1..Len(hrp) : IsLower(hrp[i])
    IN  IF hrp = <<>> \/ Len(hrp) > 83 \/ (has_upper /\ has_lower) THEN "error"
        ELSE IF has_upper THEN "upper"
        ELSE IF has_lower THEN "lower"
        ELSE "none"

\* bech32::encode(hrp, data, Variant::Bech32)
bech32_encode(hrp, data) ==
    IF check_hrp(hrp) = "error" THEN Err("Bech32 encode error")
    ELSE LET hrp_lower == [i \in 1..Len(hrp) |-> ToLower(hrp[i])]
             plm == Xor(polymod(hrp_expand(hrp_lower) \o data \o Repeat(0, 6)), 1)
             checksum == [p \in 1..6 |-> (plm \div (2 ^ (5 * (6 - p)))) % 32]
             all == data \o checksum
         IN  Ok(hrp_lower \o <<"1">> \o [i \in 1..Len(all) |-> Bech32Charset[all[i] + 1]])

\* s.rfind('1'), 0 when there is none
LastSeparator(s) ==
    IF \E i \in 1..Len(s) : s[i] = "1"
    THEN CHOOSE i \in 1..Len(s) : s[i] = "1" /\ \A j \in (i + 1)..Len(s) : s[j] # "1"
    ELSE 0

\* bech32::decode(s): the lower-case HRP and the data without its checksum
bech32_decode(s) ==
    LET sep == LastSeparator(s) IN
    IF sep = 0 THEN Err("Bech32 decode error")
    ELSE LET raw_hrp  == Take(s, sep - 1)
             raw_data == Drop(s, sep)
             case     == check_hrp(raw_hrp)
             upper    == case = "upper" \/ \E i \in 1..Len(raw_data) : IsUpper(raw_data[i])
             lower    == case = "lower" \/ \E i \in 1..Len(raw_data) : IsLower(raw_data[i])
             hrp_lower == [i \in 1..Len(raw_hrp) |-> ToLower(raw_hrp[i])]
         IN  IF \/ case = "error"
                \/ upper /\ lower
                \/ \E i \in 1..Len(raw_data) : ToLower(raw_data[i]) \notin Bech32Chars
                \/ Len(raw_data) < 6
             THEN Err("Bech32 decode error")
             ELSE LET data == [i \in 1..Len(raw_data) |-> Bech32Value[ToLower(raw_data[i])]]
                      plm  == polymod(hrp_expand(hrp_lower) \o data)
                  IN  IF plm = 1 \/ plm = 734539939
                      THEN Ok(<<hrp_lower, Take(data, Len(data) - 6)>>)
                      ELSE Err("Bech32 decode error")

\* if buffer_bits >= 5 { write((buffer & 0b1111_1000) >> 3); buffer <<= 5;
\* buffer_bits -= 5 }
Base32Flush(st) ==
    IF st.buffer_bits >= 5
    THEN [out |-> Append(st.out, st.buffer \div 8),
          buffer |-> (st.buffer * 32) % 256,
          buffer_bits |-> st.buffer_bits - 5]
    ELSE st

\* the body of the loop of write_base32 for the byte b
Base32Byte(st, b) ==
    LET f == Base32Flush(st)
    IN  [out |-> Append(f.out, (f.buffer \div 8) + (b \div (2 ^ (3 + f.buffer_bits)))),
         buffer |-> (b * (2 ^ (5 - f.buffer_bits))) % 256,
         buffer_bits |-> f.buffer_bits + 3]

\* for b in bytes { ... } over the bytes lo..hi
RECURSIVE Base32Range(_, _, _, _)
Base32Range(st, bytes, lo, hi) ==
    IF lo > hi THEN st
    ELSE IF lo = hi THEN Base32Byte(st, bytes[lo])
    ELSE LET mid  == (lo + hi) \div 2
             left == Base32Range(st, bytes, lo, mid)
         IN  Then(left, Base32Range(left, bytes, mid + 1, hi))

\* <[u8] as ToBase32>::to_base32: the bytes regrouped into 5-bit values, the
\* last one padded with zero bits
to_base32(bytes) ==
    LET st == Base32Range([out |-> <<>>, buffer |-> 0, buffer_bits |-> 0],
                          bytes, 1, Len(bytes))
        f  == Base32Flush(st)
    IN  IF f.buffer_bits # 0 THEN Append(f.out, f.buffer \div 8) ELSE f.out

\* The body of the loop of convert_bits(data, 5, 8, false) for the value v:
\* acc = (acc << 5) | v; bits += 5; while bits >= 8 { bits -= 8;
\* ret.push((acc >> bits) & 0xff) }.  Of acc the low `bits` bits are kept: the
\* others are never read again.
FromBase32Value(st, v) ==
    LET acc  == st.acc * 32 + v
        bits == st.bits + 5
    IN  IF bits >= 8
        THEN [out  |-> Append(st.out, (acc \div (2 ^ (bits - 8))) % 256),
              acc  |-> acc % (2 ^ (bits - 8)),
              bits |-> bits - 8]
        ELSE [out |-> st.out, acc |-> acc, bits |-> bits]

\* for value in data { ... } over the values lo..hi
RECURSIVE FromBase32Range(_, _, _, _)
FromBase32Range(st, data, lo, hi) ==
    IF lo > hi THEN st
    ELSE IF lo = hi THEN FromBase32Value(st, data[lo])
    ELSE LET mid  == (lo + hi) \div 2
             left == FromBase32Range(st, data, lo, mid)
         IN  Then(left, FromBase32Range(left, data, mid + 1, hi))

\* Vec<u8>::from_base32: the 5-bit values regrouped into bytes; left-over bits
\* must be fewer than 5 and zero
from_base32(data) ==
    LET st == FromBase32Range([out |-> <<>>, acc |-> 0, bits |-> 0],
                              data, 1, Len(data))
    IN  IF st.bits >= 5 \/ (st.acc * (2 ^ (8 - st.bits))) % 256 # 0
        THEN Err("Bech32 from_base32 error")
        ELSE Ok(st.out)

-----------------------------------------------------------------------------
(* BitcoinClientType and AddressType *)

Networks == {"Mainnet", "Testnet", "Signet", "Regtest"}

AddressTypes ==
    {"P2PKHMainnet", "P2PKHTestnet", "P2SHMainnet", "P2SHTestnet",
     "Bech32Mainnet", "Bech32Testnet", "Bech32Regtest"}

-----------------------------------------------------------------------------
(* BitcoinCrypto: addresses and WIF *)

\* Create a P2PKH address from hash 160
hash160_to_p2pkh_address(hash160, bitcoin_client_type) ==
    LET prefix == IF bitcoin_client_type = "Mainnet" THEN 0 ELSE 111
        data   == <<prefix>> \o hash160
    IN  Ok(base58_encode(data \o Checksum4(data)))

\* Create a P2SH address from hash 160
hash160_to_p2sh_address(hash160, bitcoin_client_type) ==
    LET prefix == IF bitcoin_client_type = "Mainnet" THEN 5 ELSE 196
        data   == <<prefix>> \o hash160
    IN  Ok(base58_encode(data \o Checksum4(data)))

\* Create a Bech32 address from hash 160
hash160_to_bech32_address(hash160, bitcoin_client_type) ==
    LET hrp == CASE bitcoin_client_type = "Mainnet" -> <<"b", "c">>
                 [] bitcoin_client_type \in {"Testnet", "Signet"} -> <<"t", "b">>
                 [] bitcoin_client_type = "Regtest" -> <<"b", "c", "r", "t">>
    IN  bech32_encode(hrp, to_base32(hash160))

\* get_address_type with the test-network version bytes exchanged
get_address_type_swapped(address) ==
    LET b == bech32_decode(address) IN
    IF b.ok
    THEN CASE b.val[1] = <<"b", "c">> -> Ok("Bech32Mainnet")
           [] b.val[1] = <<"t", "b">> -> Ok("Bech32Testnet")
           [] b.val[1] = <<"b", "c", "r", "t">> -> Ok("Bech32Regtest")
           [] OTHER -> Err("Unknown Bech32 HRP")
    ELSE LET r == decode_base58check(address) IN
         IF ~r.ok THEN r
         ELSE IF r.val = <<>> THEN Err("Empty address")
         ELSE CASE r.val[1] = 0   -> Ok("P2PKHMainnet")
                [] r.val[1] = 196 -> Ok("P2PKHTestnet")
                [] r.val[1] = 5   -> Ok("P2SHMainnet")
                [] r.val[1] = 111 -> Ok("P2SHTestnet")
                [] OTHER -> Err("Unknown address prefix")

\* Get address type
get_address_type(address) ==
    LET b == bech32_decode(address) IN
    IF b.ok
    THEN CASE b.val[1] = <<"b", "c">> -> Ok("Bech32Mainnet")
           [] b.val[1] = <<"t", "b">> -> Ok("Bech32Testnet")
           [] b.val[1] = <<"b", "c", "r", "t">> -> Ok("Bech32Regtest")
           [] OTHER -> Err("Unknown Bech32 HRP")
    ELSE LET r == decode_base58check(address) IN
         IF ~r.ok THEN r
         ELSE IF r.val = <<>> THEN Err("Empty address")
         ELSE CASE r.val[1] = 0   -> Ok("P2PKHMainnet")
                [] r.val[1] = 111 -> Ok("P2PKHTestnet")
                [] r.val[1] = 5   -> Ok("P2SHMainnet")
                [] r.val[1] = 196 -> Ok("P2SHTestnet")
                [] OTHER -> Err("Unknown address prefix")

\* Create a private key in WIF format
private_key_to_wif(private_key, compressed, bitcoin_client_type) ==
    LET prefix == IF bitcoin_client_type = "Mainnet" THEN 128 ELSE 239
        data   == <<prefix>> \o private_key \o (IF compressed THEN <<1>> ELSE <<>>)
    IN  Ok(base58_encode(data \o Checksum4(data)))

\* wif_to_private_key that looks for the compression byte one place early
wif_to_private_key_off_by_one(wif) ==
    LET r == decode_base58check(wif) IN
    IF ~r.ok THEN r
    ELSE LET decoded == r.val IN
         IF Len(decoded) < 2 THEN Err("WIF too short")
         ELSE IF decoded[1] \notin {128, 239} THEN Err("Unknown WIF version")
         ELSE LET network    == IF decoded[1] = 128 THEN "Mainnet" ELSE "Testnet"
                  compressed == Len(decoded) = 34 /\ decoded[33] = 1
                  private_key == IF compressed THEN SubSeq(decoded, 2, 33)
                                 ELSE Drop(decoded, 1)
              IN  Ok(<<private_key, compressed, network>>)

\* wif to private key: (private_key, compressed, network)
wif_to_private_key(wif) ==
    LET r == decode_base58check(wif) IN
    IF ~r.ok THEN r
    ELSE LET decoded == r.val IN
         IF Len(decoded) < 2 THEN Err("WIF too short")
         ELSE IF decoded[1] \notin {128, 239} THEN Err("Unknown WIF version")
         ELSE LET network    == IF decoded[1] = 128 THEN "Mainnet" ELSE "Testnet"
                  compressed == Len(decoded) = 34 /\ decoded[34] = 1
                  private_key == IF compressed THEN SubSeq(decoded, 2, 33)
                                 ELSE Drop(decoded, 1)
              IN  Ok(<<private_key, compressed, network>>)

\* validate_address that tries the Base58Check decode only
validate_address_base58_only(address) == decode_base58check(address).ok

\* Verify address format
validate_address(address) ==
    IF bech32_decode(address).ok THEN TRUE ELSE decode_base58check(address).ok

\* Decoding Bech32 addresses: (hrp, bytes)
decode_bech32_address(address) ==
    LET decoded == bech32_decode(address) IN
    IF ~decoded.ok THEN Err("Bech32 decode error")
    ELSE LET bytes == from_base32(decoded.val[2])
         IN  IF ~bytes.ok THEN bytes ELSE Ok(<<decoded.val[1], bytes.val>>)

\* decode_address that keeps the version byte in the hash
decode_address_whole(address) ==
    LET r == decode_base58check(address) IN
    IF ~r.ok THEN r
    ELSE IF Len(r.val) < 2 THEN Err("Address too short")
    ELSE Ok(<<r.val[1], r.val>>)

\* Decodes a Base58 address: (version, hash)
decode_address(address) ==
    LET r == decode_base58check(address) IN
    IF ~r.ok THEN r
    ELSE IF Len(r.val) < 2 THEN Err("Address too short")
    ELSE Ok(<<r.val[1], Drop(r.val, 1)>>)

-----------------------------------------------------------------------------
(* u64: four 16-bit limbs, the most significant first *)

U64(hi, mh, ml, lo) == <<hi, mh, ml, lo>>

\* a < b
U64Less(a, b) ==
    \E i \in 1..4 : a[i] < b[i] /\ \A j \in 1..(i - 1) : a[j] = b[j]

\* a <= b
U64LessEq(a, b) == a = b \/ U64Less(a, b)

\* value as u8, value as u16, value as u32: the low bits are kept
AsU8(value) == value[4] % 256

AsU16(value) == <<value[4]>>

AsU32(value) == <<value[3], value[4]>>

\* n as u64, for a byte or a narrower unsigned integer given by its limbs
AsU64(limbs) == Repeat(0, 4 - Len(limbs)) \o limbs

\* to_le_bytes of an unsigned integer given by its limbs
RECURSIVE to_le_bytes(_)
to_le_bytes(limbs) ==
    IF limbs = <<>> THEN <<>>
    ELSE LET w == limbs[Len(limbs)]
         IN  <<w % 256, w \div 256>> \o to_le_bytes(Take(limbs, Len(limbs) - 1))

\* from_le_bytes: the limbs of the unsigned integer of 2, 4 or 8 bytes
RECURSIVE from_le_bytes(_)
from_le_bytes(bytes) ==
    IF bytes = <<>> THEN <<>>
    ELSE from_le_bytes(Drop(bytes, 2)) \o <<bytes[1] + 256 * bytes[2]>>

-----------------------------------------------------------------------------
(* Serialization: variable-length integers *)

\* serialize_varint whose first test takes 0xFD for a one-byte value
serialize_varint_fd_inclusive(value) ==
    IF U64LessEq(value, U64(0, 0, 0, 253)) THEN <<AsU8(value)>>
    ELSE IF U64LessEq(value, U64(0, 0, 0, 65535))
         THEN <<253>> \o to_le_bytes(AsU16(value))
    ELSE IF U64LessEq(value, U64(0, 0, 65535, 65535))
         THEN <<254>> \o to_le_bytes(AsU32(value))
    ELSE <<255>> \o to_le_bytes(value)

\* serialize_varint whose second test leaves 0xFFFF to the 32-bit form
serialize_varint_ffff_exclusive(value) ==
    IF U64Less(value, U64(0, 0, 0, 253)) THEN <<AsU8(value)>>
    ELSE IF U64Less(value, U64(0, 0, 0, 65535))
         THEN <<253>> \o to_le_bytes(AsU16(value))
    ELSE IF U64LessEq(value, U64(0, 0, 65535, 65535))
         THEN <<254>> \o to_le_bytes(AsU32(value))
    ELSE <<255>> \o to_le_bytes(value)

\* Serializing variable-length integers
serialize_varint(value) ==
    IF U64Less(value, U64(0, 0, 0, 253)) THEN <<AsU8(value)>>
    ELSE IF U64LessEq(value, U64(0, 0, 0, 65535))
         THEN <<253>> \o to_le_bytes(AsU16(value))
    ELSE IF U64LessEq(value, U64(0, 0, 65535, 65535))
         THEN <<254>> \o to_le_bytes(AsU32(value))
    ELSE <<255>> \o to_le_bytes(value)

\* deserialize_varint that reads the bytes after the marker most significant
\* first
deserialize_varint_big_endian(bytes) ==
    IF bytes = <<>> THEN Err("Empty data for varint")
    ELSE IF bytes[1] < 253 THEN Ok(<<AsU64(<<bytes[1]>>), 1>>)
    ELSE IF bytes[1] = 253
         THEN IF Len(bytes) < 3 THEN Err("Insufficient data for varint(16)")
              ELSE Ok(<<AsU64(from_le_bytes(Reverse(SubSeq(bytes, 2, 3)))), 3>>)
    ELSE IF bytes[1] = 254
         THEN IF Len(bytes) < 5 THEN Err("Insufficient data for varint(32)")
              ELSE Ok(<<AsU64(from_le_bytes(Reverse(SubSeq(bytes, 2, 5)))), 5>>)
    ELSE IF Len(bytes) < 9 THEN Err("Insufficient data for varint(64)")
         ELSE Ok(<<from_le_bytes(Reverse(SubSeq(bytes, 2, 9))), 9>>)

\* Deserializing variable-length integers: (value, bytes consumed)
deserialize_varint(bytes) ==
    IF bytes = <<>> THEN Err("Empty data for varint")
    ELSE IF bytes[1] < 253 THEN Ok(<<AsU64(<<bytes[1]>>), 1>>)
    ELSE IF bytes[1] = 253
         THEN IF Len(bytes) < 3 THEN Err("Insufficient data for varint(16)")
              ELSE Ok(<<AsU64(from_le_bytes(SubSeq(bytes, 2, 3))), 3>>)
    ELSE IF bytes[1] = 254
         THEN IF Len(bytes) < 5 THEN Err("Insufficient data for varint(32)")
              ELSE Ok(<<AsU64(from_le_bytes(SubSeq(bytes, 2, 5))), 5>>)
    ELSE IF Len(bytes) < 9 THEN Err("Insufficient data for varint(64)")
         ELSE Ok(<<from_le_bytes(SubSeq(bytes, 2, 9)), 9>>)

-----------------------------------------------------------------------------
(* Hex (the hex crate) *)

HexDigits ==
    << "0", "1", "2", "3", "4", "5", "6", "7", "8", "9", "a", "b", "c", "d", "e", "f" >>

HexChars == {HexDigits[i] : i \in 1..16}

HexValue == [c \in HexChars |-> (CHOOSE i \in 1..16 : HexDigits[i] = c) - 1]

\* hex::encode: two lower-case digits a byte
hex_encode(bytes) ==
    [i \in 1..(2 * Len(bytes)) |->
        IF i % 2 = 1 THEN HexDigits[(bytes[(i + 1) \div 2] \div 16) + 1]
        ELSE HexDigits[(bytes[i \div 2] % 16) + 1]]

\* hex::decode: digits of either case
hex_decode(t) ==
    IF Len(t) % 2 = 1 THEN Err("Odd number of digits")
    ELSE IF \E i \in 1..Len(t) : ToLower(t[i]) \notin HexChars
         THEN Err("Invalid character")
    ELSE Ok([i \in 1..(Len(t) \div 2) |->
                16 * HexValue[ToLower(t[2 * i - 1])] + HexValue[ToLower(t[2 * i])]])

-----------------------------------------------------------------------------
(* Serialization: the Merkle root *)

\* [u8; 32]
HashLen == 32

\* the outcome of a call that panicked
Panic == Err("panic")

\* the empty-list literal with 70 characters
EmptyRootLiteral_overlong == Repeat("0", 70)

\* the empty-list literal of verify_merkle_root
EmptyRootLiteral == Repeat("0", 64)

\* the closure of the map: the leaf decoded, reversed and copied into [u8; 32];
\* unwrap and copy_from_slice panic
LeafBytes(h) ==
    LET r == hex_decode(h) IN
    IF ~r.ok \/ Len(r.val) # HashLen THEN Panic ELSE Ok(Reverse(r.val))

\* one pass over the whole pairs only: the last hash of an odd level is lost
RECURSIVE PairUpWholePairs(_)
PairUpWholePairs(hashes) ==
    IF Len(hashes) < 2 THEN <<>>
    ELSE <<double_sha256(hashes[1] \o hashes[2])>> \o PairUpWholePairs(Drop(hashes, 2))

\* one pass that keeps the last hash of an odd level as it is
RECURSIVE PairUpNoDuplicate(_)
PairUpNoDuplicate(hashes) ==
    IF hashes = <<>> THEN <<>>
    ELSE IF Len(hashes) = 1 THEN hashes
    ELSE <<double_sha256(hashes[1] \o hashes[2])>> \o PairUpNoDuplicate(Drop(hashes, 2))

\* for chunk in hashes.chunks(2) { ... new_hashes.push(hash) }
RECURSIVE PairUp(_)
PairUp(hashes) ==
    IF hashes = <<>> THEN <<>>
    ELSE LET left  == hashes[1]
             right == IF Len(hashes) > 1 THEN hashes[2] ELSE hashes[1]
         IN  <<double_sha256(left \o right)>> \o PairUp(Drop(hashes, 2))

\* while hashes.len() > 1 { ... hashes = new_hashes }
RECURSIVE ReduceLevels(_)
ReduceLevels(hashes) ==
    IF Len(hashes) > 1 THEN ReduceLevels(PairUp(hashes)) ELSE hashes

\* Verifying the Merkle root
verify_merkle_root(tx_hashes, merkle_root) ==
    IF tx_hashes = <<>> THEN Ok(merkle_root = EmptyRootLiteral)
    ELSE IF \E i \in 1..Len(tx_hashes) : ~LeafBytes(tx_hashes[i]).ok THEN Panic
    ELSE LET hashes          == [i \in 1..Len(tx_hashes) |-> LeafBytes(tx_hashes[i]).val]
             calculated_root == ReduceLevels(hashes)[1]
         IN  Ok(hex_encode(Reverse(calculated_root)) = merkle_root)

\* calculate_txid that leaves the hash in internal byte order
calculate_txid_unreversed(tx_hex) ==
    LET tx_bytes == hex_decode(tx_hex) IN
    IF ~tx_bytes.ok THEN tx_bytes
    ELSE Ok(hex_encode(double_sha256(tx_bytes.val)))

\* Calculate transaction ID (reversed double SHA256)
calculate_txid(tx_hex) ==
    LET tx_bytes == hex_decode(tx_hex) IN
    IF ~tx_bytes.ok THEN tx_bytes
    ELSE LET hash == double_sha256(tx_bytes.val)
         IN  Ok(hex_encode(Reverse(hash)))

-----------------------------------------------------------------------------
(* The inputs the caller draws *)

\* the longest run of the first fill byte at the head of a fixed-size input
MaxRun == 2

\* the longest payload handed to base58check_encode
MaxPayloadLen == 3

\* the longest text the caller makes up
MaxTextLen == 3

\* [u8; 20]
Hash160Len == 20

\* [u8; 32]
PrivateKeyLen == 32

FillBytes == {0, 90, 255}

PayloadBytes == {0, 1, 128, 239}

TextChars == {"1", "z", "0"}

Pattern(len, a, b, k) == [i \in 1..len |-> IF i <= k THEN a ELSE b]

Hash160Samples ==
    {Pattern(Hash160Len, a, b, k) : a \in FillBytes, b \in FillBytes, k \in 0..MaxRun}

PrivateKeySamples ==
    {Pattern(PrivateKeyLen, a, b, k) : a \in FillBytes, b \in FillBytes, k \in 0..MaxRun}

SeqsUpTo(S, n) == UNION {[1..k -> S] : k \in 0..n}

PayloadSamples == SeqsUpTo(PayloadBytes, MaxPayloadLen)

\* `t` with its i-th character replaced by c
Replace(t, i, c) == [j \in 1..Len(t) |-> IF j = i THEN c ELSE t[j]]

\* texts made up by the caller: short ones, and Base58Check texts with one
\* character changed
TextSamples ==
    SeqsUpTo(TextChars, MaxTextLen)
      \cup {Replace(base58check_encode(p), i, c) :
               p \in SeqsUpTo(PayloadBytes, 1), i \in 1..2, c \in {"2", "0"}}
      \cup {bech32_encode(<<"a">>, <<>>).val,
            [i \in 1..8 |-> ToUpper(bech32_encode(<<"a">>, <<>>).val[i])],
            Replace(bech32_encode(<<"a">>, <<>>).val, 8, "q"),
            Replace(bech32_encode(<<"b", "c">>, <<0, 1>>).val, 1, "B")}

\* the most bytes that follow a varint in the stream it is read from
MaxTail == 1

\* the most bytes after the first one in a stream the caller makes up
MaxBody == 9

VarintLowSamples == {0, 5, 252, 253, 254, 255, 256, 65535}

VarintHighSamples == {0, 1, 65535}

U64Samples ==
    {U64(a, b, c, d) : a \in VarintHighSamples, b \in VarintHighSamples,
                       c \in VarintHighSamples, d \in VarintLowSamples}

TailSamples == SeqsUpTo({0, 255}, MaxTail)

StreamSamples ==
    {<<>>} \cup
    {<<m>> \o Pattern(k, a, b, j) :
        m \in {0, 5, 252, 253, 254, 255}, k \in 0..MaxBody,
        a \in {0, 5, 255}, b \in {0, 5, 255}, j \in 0..MaxRun}

\* the longest list of leaves handed to verify_merkle_root
MaxLeaves == 3

\* every other character in upper case
MixedCase(t) == [i \in 1..Len(t) |-> IF i % 2 = 1 THEN ToUpper(t[i]) ELSE t[i]]

\* transaction ids as the collaborator hands them over: lower-case hex, and one
\* of mixed case
TxidSamples ==
    {hex_encode(Pattern(HashLen, 0, 17, 1)), hex_encode(Pattern(HashLen, 171, 205, 1)),
     MixedCase(hex_encode(Pattern(HashLen, 239, 1, MaxRun)))}

\* strings that are no transaction id: 31 bytes, and a character that is no digit
MalformedSamples ==
    {hex_encode(Pattern(HashLen - 1, 0, 17, 1)),
     Replace(hex_encode(Pattern(HashLen, 0, 17, 1)), 1, "g")}

\* lists of transaction ids, and shorter lists with one leaf replaced by a
\* string that is no transaction id
LeafLists ==
    SeqsUpTo(TxidSamples, MaxLeaves)
      \cup UNION {{Replace(l, i, m) : i \in 1..Len(l), m \in MalformedSamples} :
                    l \in SeqsUpTo(TxidSamples, MaxLeaves - 1)}

WellFormed(tx_hashes) ==
    \A i \in 1..Len(tx_hashes) :
        hex_decode(tx_hashes[i]).ok /\ Len(hex_decode(tx_hashes[i]).val) = HashLen

\* The Merkle root as the specification words it.  The level above a level:
\* its i-th hash is double_sha256 of the (2i-1)-th and the 2i-th hash, the last
\* hash of an odd level paired with itself.
LevelAbove(level) ==
    [i \in 1..((Len(level) + 1) \div 2) |->
        double_sha256(level[2 * i - 1]
                        \o level[IF 2 * i <= Len(level) THEN 2 * i ELSE 2 * i - 1])]

RECURSIVE RootOf(_)
RootOf(level) == IF Len(level) = 1 THEN level[1] ELSE RootOf(LevelAbove(level))

\* display order: the lower-case hex of the reversed bytes
DisplayHex(hash) == hex_encode(Reverse(hash))

\* internal order: the reversed bytes of the hex
Internal(txid) == Reverse(hex_decode(txid).val)

ExpectedRoot(tx_hashes) ==
    DisplayHex(RootOf([i \in 1..Len(tx_hashes) |-> Internal(tx_hashes[i])]))

\* the roots the caller expects: 64 zeros, shorter and longer runs of zeros,
\* the first leaf, the root of the list and the root of the list in the
\* opposite order
RootSamples(tx_hashes) ==
    {Repeat("0", 2 * HashLen), Repeat("0", 2 * HashLen - 2), Repeat("0", 2 * HashLen + 6)}
      \cup (IF tx_hashes = <<>> THEN {} ELSE {tx_hashes[1]})
      \cup (IF tx_hashes # <<>> /\ WellFormed(tx_hashes)
            THEN {ExpectedRoot(tx_hashes), ExpectedRoot(Reverse(tx_hashes))}
            ELSE {})

\* the longest raw transaction text the caller makes up
MaxHexLen == 3

HexTextChars == {"0", "a", "A", "g"}

\* raw transactions in hex: short texts, some of odd length or with a character
\* that is no digit, and longer ones in lower and in mixed case
TxHexSamples ==
    SeqsUpTo(HexTextChars, MaxHexLen)
      \cup {hex_encode(Pattern(5, 1, 171, 1)), MixedCase(hex_encode(Pattern(5, 1, 171, 1))),
            hex_encode(Pattern(HashLen, 0, 255, MaxRun))}

\* the longest list whose reduction is followed level by level
MaxLoopLeaves == 5

\* lists for the level-by-level run: two transaction ids in every order, and a
\* leaf that is no transaction id
LoopLists ==
    SeqsUpTo({hex_encode(Pattern(HashLen, 0, 17, 1)),
              hex_encode(Pattern(HashLen, 171, 205, 1))}, MaxLoopLeaves)
      \cup {<<hex_encode(Pattern(HashLen - 1, 0, 17, 1))>>}

-----------------------------------------------------------------------------
(* The caller *)

Init ==
    /\ pc = "idle"
    /\ call = [op |-> "none"]
    /\ text = <<>>
    /\ stream = <<>>
    /\ query = "none"
    /\ result = Err("")

Hash160ToP2pkhAddress ==
    /\ pc = "idle"
    /\ \E h \in Hash160Samples, n \in Networks :
        /\ hash160_to_p2pkh_address(h, n).ok
        /\ pc' = "text"
        /\ call' = [op |-> "hash160_to_p2pkh_address", hash160 |-> h, net |-> n]
        /\ text' = hash160_to_p2pkh_address(h, n).val
        /\ UNCHANGED <<stream, query, result>>

Hash160ToP2shAddress ==
    /\ pc = "idle"
    /\ \E h \in Hash160Samples, n \in Networks :
        /\ hash160_to_p2sh_address(h, n).ok
        /\ pc' = "text"
        /\ call' = [op |-> "hash160_to_p2sh_address", hash160 |-> h, net |-> n]
        /\ text' = hash160_to_p2sh_address(h, n).val
        /\ UNCHANGED <<stream, query, result>>

Hash160ToBech32Address ==
    /\ pc = "idle"
    /\ \E h \in Hash160Samples, n \in Networks :
        /\ hash160_to_bech32_address(h, n).ok
        /\ pc' = "text"
        /\ call' = [op |-> "hash160_to_bech32_address", hash160 |-> h, net |-> n]
        /\ text' = hash160_to_bech32_address(h, n).val
        /\ UNCHANGED <<stream, query, result>>

PrivateKeyToWif ==
    /\ pc = "idle"
    /\ \E k \in PrivateKeySamples, c \in BOOLEAN, n \in Networks :
        /\ private_key_to_wif(k, c, n).ok
        /\ pc' = "text"
        /\ call' = [op |-> "private_key_to_wif", private_key |-> k,
                    compressed |-> c, net |-> n]
        /\ text' = private_key_to_wif(k, c, n).val
        /\ UNCHANGED <<stream, query, result>>

Base58checkEncode ==
    /\ pc = "idle"
    /\ \E p \in PayloadSamples :
        /\ pc' = "text"
        /\ call' = [op |-> "base58check_encode", data |-> p]
        /\ text' = base58check_encode(p)
        /\ UNCHANGED <<stream, query, result>>

\* the caller holds a text of its own
SupplyText ==
    /\ pc = "idle"
    /\ \E t \in TextSamples :
        /\ pc' = "text"
        /\ call' = [op |-> "text"]
        /\ text' = t
        /\ UNCHANGED <<stream, query, result>>

SerializeVarint ==
    /\ pc = "idle"
    /\ \E v \in U64Samples, tail \in TailSamples :
        /\ pc' = "stream"
        /\ call' = [op |-> "serialize_varint", value |-> v,
                    out |-> serialize_varint(v), tail |-> tail]
        /\ stream' = serialize_varint(v) \o tail
        /\ UNCHANGED <<text, query, result>>

\* the caller holds bytes of its own
SupplyBytes ==
    /\ pc = "idle"
    /\ \E s \in StreamSamples :
        /\ pc' = "stream"
        /\ call' = [op |-> "bytes"]
        /\ stream' = s
        /\ UNCHANGED <<text, query, result>>

DeserializeVarint ==
    /\ pc = "stream"
    /\ pc' = "done"
    /\ query' = "deserialize_varint"
    /\ result' = deserialize_varint(stream)
    /\ UNCHANGED <<call, text, stream>>

VerifyMerkleRoot ==
    /\ pc = "idle"
    /\ \E tx_hashes \in LeafLists :
        \E merkle_root \in RootSamples(tx_hashes) :
            /\ pc' = "done"
            /\ call' = [op |-> "verify_merkle_root", tx_hashes |-> tx_hashes,
                        merkle_root |-> merkle_root]
            /\ query' = "verify_merkle_root"
            /\ result' = verify_merkle_root(tx_hashes, merkle_root)
            /\ UNCHANGED <<text, stream>>

Base58checkDecode ==
    /\ pc = "text"
    /\ pc' = "done"
    /\ query' = "base58check_decode"
    /\ result' = base58check_decode(text)
    /\ UNCHANGED <<call, text, stream>>

GetAddressType ==
    /\ pc = "text"
    /\ pc' = "done"
    /\ query' = "get_address_type"
    /\ result' = get_address_type(text)
    /\ UNCHANGED <<call, text, stream>>

WifToPrivateKey ==
    /\ pc = "text"
    /\ pc' = "done"
    /\ query' = "wif_to_private_key"
    /\ result' = wif_to_private_key(text)
    /\ UNCHANGED <<call, text, stream>>

ValidateAddress ==
    /\ pc = "text"
    /\ pc' = "done"
    /\ query' = "validate_address"
    /\ result' = Ok(validate_address(text))
    /\ UNCHANGED <<call, text, stream>>

DecodeAddress ==
    /\ pc = "text"
    /\ pc' = "done"
    /\ query' = "decode_address"
    /\ result' = decode_address(text)
    /\ UNCHANGED <<call, text, stream>>

DecodeBech32Address ==
    /\ pc = "text"
    /\ pc' = "done"
    /\ query' = "decode_bech32_address"
    /\ result' = decode_bech32_address(text)
    /\ UNCHANGED <<call, text, stream>>

CalculateTxid ==
    /\ pc = "idle"
    /\ \E tx_hex \in TxHexSamples :
        /\ pc' = "done"
        /\ call' = [op |-> "calculate_txid", tx_hex |-> tx_hex]
        /\ query' = "calculate_txid"
        /\ result' = calculate_txid(tx_hex)
        /\ UNCHANGED <<text, stream>>

Return ==
    /\ pc = "done"
    /\ pc' = "idle"
    /\ call' = [op |-> "none"]
    /\ text' = <<>>
    /\ stream' = <<>>
    /\ query' = "none"
    /\ result' = Err("")

Next ==
    \/ Hash160ToP2pkhAddress
    \/ Hash160ToP2shAddress
    \/ Hash160ToBech32Address
    \/ PrivateKeyToWif
    \/ Base58checkEncode
    \/ SupplyText
    \/ Base58checkDecode
    \/ GetAddressType
    \/ WifToPrivateKey
    \/ ValidateAddress
    \/ DecodeAddress
    \/ DecodeBech32Address
    \/ SerializeVarint
    \/ SupplyBytes
    \/ DeserializeVarint
    \/ VerifyMerkleRoot
    \/ CalculateTxid
    \/ Return

Spec == Init /\ [][Next]_vars

-----------------------------------------------------------------------------
(* verify_merkle_root followed level by level: the call holds the current     *)
(* level in `hashes` and the number of passes of the while loop made so far.  *)

\* the empty-list test and the map of the leaves, up to the first test of the
\* while loop
MerkleBegin ==
    /\ pc = "idle"
    /\ \E tx_hashes \in LoopLists :
        \E merkle_root \in {EmptyRootLiteral}
                \cup (IF tx_hashes # <<>> /\ WellFormed(tx_hashes)
                      THEN {ExpectedRoot(tx_hashes)} ELSE {}) :
            /\ query' = "verify_merkle_root"
            /\ IF tx_hashes = <<>>
               THEN /\ pc' = "done"
                    /\ call' = [op |-> "verify_merkle_root", tx_hashes |-> tx_hashes,
                                merkle_root |-> merkle_root, hashes |-> <<>>,
                                iterations |-> 0]
                    /\ result' = Ok(merkle_root = EmptyRootLiteral)
               ELSE IF \E i \in 1..Len(tx_hashes) : ~LeafBytes(tx_hashes[i]).ok
               THEN /\ pc' = "done"
                    /\ call' = [op |-> "verify_merkle_root", tx_hashes |-> tx_hashes,
                                merkle_root |-> merkle_root, hashes |-> <<>>,
                                iterations |-> 0]
                    /\ result' = Panic
               ELSE /\ pc' = "loop"
                    /\ call' = [op |-> "verify_merkle_root", tx_hashes |-> tx_hashes,
                                merkle_root |-> merkle_root,
                                hashes |-> [i \in 1..Len(tx_hashes) |->
                                               LeafBytes(tx_hashes[i]).val],
                                iterations |-> 0]
                    /\ result' = result
            /\ UNCHANGED <<text, stream>>

\* one pass of while hashes.len() > 1 { ... hashes = new_hashes }
MerkleIterate ==
    /\ pc = "loop"
    /\ Len(call.hashes) > 1
    /\ call' = [call EXCEPT !.hashes = PairUp(call.hashes),
                            !.iterations = call.iterations + 1]
    /\ UNCHANGED <<pc, text, stream, query, result>>

\* the loop left: the root reversed, encoded and compared
MerkleFinish ==
    /\ pc = "loop"
    /\ ~(Len(call.hashes) > 1)
    /\ pc' = "done"
    /\ result' = IF call.hashes = <<>> THEN Panic
                 ELSE Ok(hex_encode(Reverse(call.hashes[1])) = call.merkle_root)
    /\ UNCHANGED <<call, text, stream, query>>

LoopNext ==
    \/ MerkleBegin
    \/ MerkleIterate
    \/ MerkleFinish
    \/ Return

\* the call runs on: a pass or the exit that can be made is made
LoopSpec ==
    Init /\ [][LoopNext]_vars /\ WF_vars(MerkleIterate) /\ WF_vars(MerkleFinish)

-----------------------------------------------------------------------------
(* The claims *)

Asked(q) == pc = "done" /\ query = q

\* C1: get_address_type applied to the address built from a 20-byte hash and a
\* network succeeds and yields the type of that network: P2PKH and P2SH are
\* Mainnet for Mainnet and Testnet for the three others; Bech32 is Mainnet for
\* Mainnet, Testnet for Testnet and Signet, Regtest for Regtest.
C1_AddressTypeMatchesNetwork ==
    Asked("get_address_type") =>
        /\ call.op = "hash160_to_p2pkh_address" =>
               result = Ok(IF call.net = "Mainnet" THEN "P2PKHMainnet"
                           ELSE "P2PKHTestnet")
        /\ call.op = "hash160_to_p2sh_address" =>
               result = Ok(IF call.net = "Mainnet" THEN "P2SHMainnet"
                           ELSE "P2SHTestnet")
        /\ call.op = "hash160_to_bech32_address" =>
               result = Ok(CASE call.net = "Mainnet" -> "Bech32Mainnet"
                             [] call.net = "Testnet" -> "Bech32Testnet"
                             [] call.net = "Signet"  -> "Bech32Testnet"
                             [] call.net = "Regtest" -> "Bech32Regtest")

\* a Signet P2SH address whose hash starts with zero bytes was classified
C1_Witness ==
    /\ Asked("get_address_type")
    /\ call.op = "hash160_to_p2sh_address"
    /\ call.net = "Signet"
    /\ call.hash160[1] = 0
    /\ result = Ok("P2SHTestnet")

\* C2: base58check_decode(base58check_encode(P)) succeeds and returns exactly P,
\* the empty payload and payloads with leading zero bytes included; the text
\* holds P followed by the first 4 bytes of double_sha256(P).
C2_Base58checkRoundTrip ==
    (Asked("base58check_decode") /\ call.op = "base58check_encode") =>
        /\ result = Ok(call.data)
        /\ base58_decode(text) = Ok(call.data \o Take(double_sha256(call.data), 4))

\* a payload of two zero bytes and a non-zero one came back
C2_Witness ==
    /\ Asked("base58check_decode")
    /\ call.op = "base58check_encode"
    /\ call.data = <<0, 0, 239>>
    /\ result.ok

\* C3: decode_base58check answers, in this order: a decode error when the text
\* has a character outside the Base58 alphabet; too short when fewer than 4
\* bytes were decoded; a checksum mismatch when the last 4 bytes are not the
\* first 4 bytes of double_sha256 of the bytes before them; otherwise those
\* bytes.  A payload is returned only for the text that is its encoding.
C3_DecodeOutcomes ==
    Asked("base58check_decode") =>
        /\ IF \E i \in 1..Len(text) : text[i] \notin B58Chars
           THEN result = Err("Base58 decode error")
           ELSE LET decoded == base58_decode(text).val
                    n       == Len(decoded) - 4
                IN  IF Len(decoded) < 4
                    THEN result = Err("Data too short for checksum")
                    ELSE IF Drop(decoded, n) # Take(double_sha256(Take(decoded, n)), 4)
                         THEN result = Err("Checksum mismatch")
                         ELSE result = Ok(Take(decoded, n))
        /\ result.ok =>
               base58_encode(result.val \o Take(double_sha256(result.val), 4)) = text

\* a text of at least 4 decoded bytes was refused for its checksum
C3_Witness ==
    /\ Asked("base58check_decode")
    /\ call.op = "text"
    /\ Len(text) > MaxTextLen
    /\ result = Err("Checksum mismatch")

\* C4: wif_to_private_key(private_key_to_wif(k, c, n)) succeeds and returns
\* (k, c, n') with n' = Mainnet for Mainnet and Testnet for Testnet, Signet and
\* Regtest.
C4_WifRoundTrip ==
    (Asked("wif_to_private_key") /\ call.op = "private_key_to_wif") =>
        result = Ok(<<call.private_key, call.compressed,
                      IF call.net = "Mainnet" THEN "Mainnet" ELSE "Testnet">>)

\* a compressed Mainnet key came back
C4_Witness ==
    /\ Asked("wif_to_private_key")
    /\ call.op = "private_key_to_wif"
    /\ call.compressed
    /\ call.net = "Mainnet"
    /\ result.ok
    /\ result.val[2]

\* C5: whenever wif_to_private_key succeeds, the private key it returns is
\* exactly 32 bytes long.
C5_WifKeyIs32Bytes ==
    (Asked("wif_to_private_key") /\ result.ok) => Len(result.val[1]) = PrivateKeyLen

\* C6: deserialize_varint(serialize_varint(v)) succeeds and returns (v, L), L
\* the length of serialize_varint(v), for the boundary values and the others,
\* also when bytes follow the encoding in the stream.
C6_VarintRoundTrip ==
    (Asked("deserialize_varint") /\ call.op = "serialize_varint") =>
        result = Ok(<<call.value, Len(call.out)>>)

\* 2^64 - 1 came back from a stream with a byte after its encoding
C6_Witness ==
    /\ Asked("deserialize_varint")
    /\ call.op = "serialize_varint"
    /\ call.value = <<65535, 65535, 65535, 65535>>
    /\ call.tail # <<>>
    /\ result.ok
    /\ result.val[2] = 9

\* C7: serialize_varint(v) is 1 byte [v] when v < 0xFD, 0xFD and 2 little-endian
\* bytes when 0xFD <= v <= 0xFFFF, 0xFE and 4 little-endian bytes when
\* 0x10000 <= v <= 0xFFFFFFFF, 0xFF and 8 little-endian bytes otherwise; the
\* bytes hold every bit of v; and no byte sequence that deserializes to a value
\* is shorter than serialize_varint of that value.
C7_ShortestForm ==
    /\ (pc = "stream" /\ call.op = "serialize_varint") =>
           LET v   == call.value
               out == call.out
               le  == [i \in 1..4 |->
                          IF 2 * i + 1 <= Len(out) THEN out[2 * i] + 256 * out[2 * i + 1]
                          ELSE 0]
           IN  IF v[1] = 0 /\ v[2] = 0 /\ v[3] = 0 /\ v[4] < 253
               THEN out = <<v[4]>>
               ELSE /\ <<le[4], le[3], le[2], le[1]>> = v
                    /\ IF v[1] = 0 /\ v[2] = 0 /\ v[3] = 0
                       THEN Len(out) = 3 /\ out[1] = 253
                       ELSE IF v[1] = 0 /\ v[2] = 0
                            THEN Len(out) = 5 /\ out[1] = 254
                            ELSE Len(out) = 9 /\ out[1] = 255
    /\ (Asked("deserialize_varint") /\ result.ok) =>
           Len(serialize_varint(result.val[1])) <= result.val[2]

\* 0xFFFF was written in the 16-bit form
C7_Witness ==
    /\ pc = "stream"
    /\ call.op = "serialize_varint"
    /\ call.value = <<0, 0, 0, 65535>>
    /\ call.out = <<253, 255, 255>>

\* C8: deserialize_varint answers every byte sequence: an error for the empty
\* one, an error when the first byte is 0xFD, 0xFE or 0xFF and there are fewer
\* than 3, 5 or 9 bytes, and otherwise the little-endian value of the bytes
\* after the marker (the first byte itself below 0xFD) with 1, 3, 5 or 9 bytes
\* consumed, never more than the input holds; 0xFD 0x05 0x00 decodes to (5, 3).
C8_DeserializeTotal ==
    Asked("deserialize_varint") =>
        LET need == IF stream = <<>> THEN 0
                    ELSE CASE stream[1] = 253 -> 3
                           [] stream[1] = 254 -> 5
                           [] stream[1] = 255 -> 9
                           [] OTHER -> 1
            le   == [i \in 1..4 |->
                        IF 2 * i + 1 <= need THEN stream[2 * i] + 256 * stream[2 * i + 1]
                        ELSE 0]
        IN  /\ IF stream = <<>> \/ Len(stream) < need
               THEN ~result.ok /\ result.err # "panic"
               ELSE /\ result.ok
                    /\ result.val[2] = need
                    /\ result.val[2] <= Len(stream)
                    /\ result.val[1] = IF need = 1 THEN <<0, 0, 0, stream[1]>>
                                       ELSE <<le[4], le[3], le[2], le[1]>>
            /\ stream = <<253, 5, 0>> => result = Ok(<< <<0, 0, 0, 5>>, 3 >>)

\* the 16-bit form of 5 was accepted
C8_Witness ==
    /\ Asked("deserialize_varint")
    /\ stream = <<253, 5, 0>>
    /\ result = Ok(<< <<0, 0, 0, 5>>, 3 >>)

\* C9: for a transaction id of 64 hex characters, lower-case or mixed-case,
\* verify_merkle_root([txid], txid) returns true.
C9_SingleLeafIsRoot ==
    ( /\ Asked("verify_merkle_root")
      /\ Len(call.tx_hashes) = 1
      /\ WellFormed(call.tx_hashes)
      /\ call.merkle_root = call.tx_hashes[1] ) =>
        result = Ok(TRUE)

\* C10: for a non-empty list of 32-byte leaves, verify_merkle_root returns true
\* iff the expected root is the lower-case hex of the reversed root of the tree
\* built level by level from the reversed leaves, the last hash of an odd level
\* paired with itself; for three leaves A, B, C the root is
\* double_sha256(double_sha256(A || B) || double_sha256(C || C)); and the root
\* of the leaves in another order is refused.
C10_MerkleRootIff ==
    ( /\ Asked("verify_merkle_root")
      /\ call.tx_hashes # <<>>
      /\ WellFormed(call.tx_hashes) ) =>
        LET tx == call.tx_hashes
            A  == Internal(tx[1])
            B  == Internal(tx[2])
            C  == Internal(tx[3])
        IN  /\ result = Ok(call.merkle_root = ExpectedRoot(tx))
            /\ Len(tx) = 3 =>
                   result = Ok(call.merkle_root =
                                   DisplayHex(double_sha256(double_sha256(A \o B)
                                                \o double_sha256(C \o C))))
            /\ ( /\ ExpectedRoot(Reverse(tx)) # ExpectedRoot(tx)
                 /\ call.merkle_root = ExpectedRoot(Reverse(tx)) ) =>
                   result = Ok(FALSE)
            /\ (\E i, j \in 1..Len(tx) : Internal(tx[i]) # Internal(tx[j])) =>
                   ExpectedRoot(Reverse(tx)) # ExpectedRoot(tx)
                     \/ Reverse(tx) = tx

\* the root of three different leaves was accepted
C10_Witness ==
    /\ Asked("verify_merkle_root")
    /\ Len(call.tx_hashes) = 3
    /\ call.tx_hashes[1] # call.tx_hashes[2]
    /\ call.tx_hashes[2] # call.tx_hashes[3]
    /\ call.tx_hashes[1] # call.tx_hashes[3]
    /\ result = Ok(TRUE)

\* C11: for an empty list, verify_merkle_root returns true iff the expected
\* root is the string of exactly 64 characters '0', and false for every other
\* expected root, runs of '0' of another length included.
C11_EmptyListPlaceholder ==
    (Asked("verify_merkle_root") /\ call.tx_hashes = <<>>) =>
        result = Ok(/\ Len(call.merkle_root) = 64
                    /\ \A i \in 1..Len(call.merkle_root) : call.merkle_root[i] = "0")

\* the empty list was accepted with 64 zeros
C11_Witness ==
    /\ Asked("verify_merkle_root")
    /\ call.tx_hashes = <<>>
    /\ Len(call.merkle_root) = 64
    /\ result = Ok(TRUE)

\* C12: verify_merkle_root never panics: for every list of strings and every
\* expected root, a leaf that is no hex or not 32 bytes included, the call
\* returns a boolean or a typed error.
C12_NeverPanics ==
    Asked("verify_merkle_root") => result # Panic

\* C13: validate_address answers true exactly when the bech32 decode of the
\* text succeeds or its Base58Check decode succeeds (the characters are of the
\* alphabet, at least 4 bytes are decoded and the last 4 are the checksum of the
\* others), and false otherwise, never an error; every text to which
\* get_address_type gives a type is accepted.
C13_ValidateAddress ==
    Asked("validate_address") =>
        LET decoded == base58_decode(text).val
            n       == Len(decoded) - 4
            base58  == /\ \A i \in 1..Len(text) : text[i] \in B58Chars
                       /\ Len(decoded) >= 4
                       /\ Drop(decoded, n) = Take(double_sha256(Take(decoded, n)), 4)
        IN  /\ result = Ok(bech32_decode(text).ok \/ base58)
            /\ get_address_type(text).ok => result = Ok(TRUE)

\* a bech32 text whose prefix names no network was accepted
C13_Witness ==
    /\ Asked("validate_address")
    /\ call.op = "text"
    /\ bech32_decode(text).ok
    /\ ~get_address_type(text).ok
    /\ result = Ok(TRUE)

\* C14: hash160_to_bech32_address(h, n) is the prefix of n (bc, tb, tb, bcrt),
\* the separator, and a data part that, before its 6 checksum characters, is the
\* 5-bit group 0 of the witness version followed by the 32 groups of 5 bits of
\* h taken most significant bit first.
C14_WitnessVersionZero ==
    (pc = "text" /\ call.op = "hash160_to_bech32_address") =>
        LET hrp  == CASE call.net = "Mainnet" -> <<"b", "c">>
                      [] call.net = "Testnet" -> <<"t", "b">>
                      [] call.net = "Signet"  -> <<"t", "b">>
                      [] call.net = "Regtest" -> <<"b", "c", "r", "t">>
            body == Drop(text, Len(hrp) + 1)
            data == [i \in 1..(Len(body) - 6) |-> Bech32Value[body[i]]]
            bit(k) == (call.hash160[(k \div 8) + 1] \div (2 ^ (7 - (k % 8)))) % 2
            group(j) == 16 * bit(5 * j - 5) + 8 * bit(5 * j - 4) + 4 * bit(5 * j - 3)
                          + 2 * bit(5 * j - 2) + bit(5 * j - 1)
        IN  /\ Take(text, Len(hrp) + 1) = hrp \o <<"1">>
            /\ data = <<0>> \o [j \in 1..32 |-> group(j)]

\* C15: decode_address of a P2PKH or P2SH address built from (h, n) is (the
\* version byte of n, h), 0x00 and 0x05 for Mainnet, 0x6f and 0xc4 otherwise;
\* decode_bech32_address of the bech32 address built from (h, n) is (the prefix
\* of n, h); and the decoded hash encoded again under n is the same text.
C15_AddressRoundTrip ==
    /\ (Asked("decode_address") /\ call.op = "hash160_to_p2pkh_address") =>
           /\ result = Ok(<<IF call.net = "Mainnet" THEN 0 ELSE 111, call.hash160>>)
           /\ hash160_to_p2pkh_address(result.val[2], call.net) = Ok(text)
    /\ (Asked("decode_address") /\ call.op = "hash160_to_p2sh_address") =>
           /\ result = Ok(<<IF call.net = "Mainnet" THEN 5 ELSE 196, call.hash160>>)
           /\ hash160_to_p2sh_address(result.val[2], call.net) = Ok(text)
    /\ (Asked("decode_bech32_address") /\ call.op = "hash160_to_bech32_address") =>
           /\ result = Ok(<<CASE call.net = "Mainnet" -> <<"b", "c">>
                              [] call.net = "Testnet" -> <<"t", "b">>
                              [] call.net = "Signet"  -> <<"t", "b">>
                              [] call.net = "Regtest" -> <<"b", "c", "r", "t">>,
                            call.hash160>>)
           /\ hash160_to_bech32_address(result.val[2], call.net) = Ok(text)

\* a Regtest P2SH address gave back 0xc4 and its hash
C15_Witness ==
    /\ Asked("decode_address")
    /\ call.op = "hash160_to_p2sh_address"
    /\ call.net = "Regtest"
    /\ result.ok
    /\ result.val[1] = 196
    /\ result.val[2] = call.hash160

\* C16: calculate_txid returns an error for a text of odd length or with a
\* character that is no hex digit, and otherwise the lower-case hex of the
\* reversed double_sha256 of the decoded bytes, 64 characters; the text with its
\* letters in lower case gives the same identifier.
C16_CalculateTxid ==
    Asked("calculate_txid") =>
        LET t      == call.tx_hex
            lower  == [i \in 1..Len(t) |-> ToLower(t[i])]
            bytes  == [i \in 1..(Len(t) \div 2) |->
                          16 * HexValue[lower[2 * i - 1]] + HexValue[lower[2 * i]]]
        IN  IF Len(t) % 2 = 1 \/ \E i \in 1..Len(t) : lower[i] \notin HexChars
            THEN ~result.ok /\ result # Panic
            ELSE /\ result = Ok(DisplayHex(double_sha256(bytes)))
                 /\ Len(result.val) = 64
                 /\ \A i \in 1..64 : result.val[i] \in HexChars
                 /\ calculate_txid(lower) = result

\* a raw transaction with upper-case digits got its identifier
C16_Witness ==
    /\ Asked("calculate_txid")
    /\ Len(call.tx_hex) > MaxHexLen
    /\ \E i \in 1..Len(call.tx_hex) : IsUpper(call.tx_hex[i])
    /\ result.ok

\* C17: for a non-empty list of n well-formed leaves the loop of
\* verify_merkle_root terminates: a pass replaces a level of m > 1 hashes by one
\* of ceil(m / 2) hashes, the level is never empty, and the loop is left with
\* one hash after ceil(log2(n)) passes, none for n = 1.
C17_LoopTerminates ==
    /\ [](pc = "loop" => Len(call.hashes) >= 1)
    /\ [][(pc = "loop" /\ pc' = "loop") =>
             /\ Len(call.hashes) > 1
             /\ Len(call'.hashes) = (Len(call.hashes) + 1) \div 2
             /\ call'.iterations = call.iterations + 1]_vars
    /\ []((pc = "done" /\ call.op = "verify_merkle_root" /\ result # Panic
              /\ call.tx_hashes # <<>>) =>
             LET n == Len(call.tx_hashes)
             IN  /\ Len(call.hashes) = 1
                 /\ call.iterations =
                        CHOOSE k \in 0..n : 2 ^ k >= n /\ \A j \in 0..(k - 1) : 2 ^ j < n)
    /\ (pc = "loop") ~> (pc = "done")

\* five leaves were reduced in three passes
C17_Witness ==
    /\ pc = "done"
    /\ call.op = "verify_merkle_root"
    /\ Len(call.tx_hashes) = 5
    /\ call.iterations = 3
    /\ result = Ok(TRUE)

====
